---- MODULE Spec2Model ----
(***************************************************************************)
(* The Summary / SummarySet subsystem of frf (frf/summary.h): the type     *)
(* registry, construction of a SummarySet from a type-code string, error   *)
(* accumulation, the merge fan-out with its pointer-offset addressing, and *)
(* the byte codec.                                                         *)
(*                                                                         *)
(* summary.h declares the interface and documents it; the function bodies  *)
(* live in summary.c.  What the header fixes (the struct layout, the       *)
(* signatures, the documented behaviour) is modelled from the header; the  *)
(* rest follows the design document of the subsystem.                      *)
(***************************************************************************)
EXTENDS Integers, Sequences, FiniteSets, TLC

\* ------------------------------------------------------------------ bounds
MaxFeatures == 2
MaxSets == 2
MaxTrees == 2
MaxExemplars == 2
MaxCalls == 6
MaxCats == 2

\* ------------------------------------------------------- ABI of the struct
\* typedef void * Summary: a slot of SummarySet.feature is one pointer.
PtrSize == 8
\* int features.
IntSize == 4

\* offsetof(SummarySet, feature): the int header padded to pointer alignment.
FeatureOffset == ((IntSize + PtrSize - 1) \div PtrSize) * PtrSize

\* offsetof(SummarySet, feature[f]) for the 0-based slot index f.
SlotOffsetNoHeader(f) == f * PtrSize

SlotOffset(f) == FeatureOffset + f * PtrSize

\* ---------------------------------------------------------------- registry
\* ListSummary: Nothing, Categorical, Gaussian, BiGaussian, by type code.
ListSummary == <<"N", "C", "G", "B">>

Registered(code) == \E i \in 1..Len(ListSummary) : ListSummary[i] = code

\* The ASCII value of a type code, as written into a byte record.
CodeByte(code) ==
  CASE code = "N" -> 78
    [] code = "C" -> 67
    [] code = "G" -> 71
    [] code = "B" -> 66
    [] OTHER -> 88

\* Lookup by code byte: the registered code, or "?" when none matches.
CodeOfByte(b) ==
  IF \E i \in 1..Len(ListSummary) : CodeByte(ListSummary[i]) = b
  THEN CHOOSE c \in {ListSummary[i] : i \in 1..Len(ListSummary)} : CodeByte(c) = b
  ELSE "?"

\* ------------------------------------------------------------ value domains
\* An IEEE-754 double is carried as its 8 bytes, little-endian.
F64(k) ==
  CASE k = 0 -> <<0, 0, 0, 0, 0, 0, 0, 0>>
    [] k = 1 -> <<0, 0, 0, 0, 0, 0, 240, 63>>
    [] k = 2 -> <<0, 0, 0, 0, 0, 0, 0, 64>>
    [] k = 3 -> <<0, 0, 0, 0, 0, 0, 8, 64>>
    [] OTHER -> <<0, 0, 0, 0, 0, 0, 16, 64>>

\* The data container: one entry per feature, its kind.
FeatureKinds == {"discrete", "continuous"}

DataMatrices == UNION {[1..n -> FeatureKinds] : n \in 1..MaxFeatures}

\* category_count(f) of the data container.
CategoryCount(dm, f) == IF dm[f] = "discrete" THEN MaxCats ELSE 1

\* A type-code string, or the null pointer.
CodeChars == {"N", "C", "G", "B", "X"}

NullCodes == [null |-> TRUE, str |-> <<>>]

CodeStrings(n) ==
  {NullCodes} \cup {[null |-> FALSE, str |-> s] : s \in UNION {[1..k -> CodeChars] : k \in 0..n}}

\* What an out-of-bounds read may do: stop the process, or go on with what it read.
UBOutcomes == {"crash", "garbage"}

\* ------------------------------------------------------- float arithmetic
\* A C float holding a non-negative integer value: 24 significant bits.
\* Ulp(x, u): the spacing of floats around x, starting the search at u.
RECURSIVE Ulp(_, _)
Ulp(x, u) == IF u >= 64 \/ x < 16777216 * u THEN u ELSE Ulp(x, 2 * u)

\* Round to the nearest float, ties to even (the default rounding mode).
FRound(x) ==
  LET u == Ulp(x, 1)
      q == x \div u
      r == x % u
  IN  IF 2 * r < u THEN q * u
      ELSE IF 2 * r > u THEN (q + 1) * u
      ELSE IF q % 2 = 0 THEN q * u ELSE (q + 1) * u

FAdd(a, b) == FRound(a + b)

\* -------------------------------------------------- the four summary kinds
NothingInit(dm, view, feature) == [tag |-> "N"]

CategoricalInit(dm, view, feature) ==
  [tag |-> "C",
   counts |-> [i \in 1..CategoryCount(dm, feature) |-> F64((view + i) % 5)]]

GaussianInit(dm, view, feature) ==
  [tag |-> "G", count |-> 150 * view,
   mean |-> F64((view + feature) % 5), var |-> F64(view % 5)]

\* The statistics of features f and f+1 of the row subset; col1 is what the
\* read of feature f+1 returned.
BiGaussianStat(view, feature, col1) ==
  [tag |-> "B", count |-> 150 * view,
   mean |-> <<F64((view + feature) % 5), F64(col1 % 5)>>,
   cov |-> <<F64(view % 5), F64(0), F64(col1 % 5)>>]

\* Reads feature and feature + 1 with no check that feature + 1 exists.
BiGaussianInit(dm, view, feature, ub) ==
  IF feature + 1 <= Len(dm)
  THEN [status |-> "ok", sum |-> BiGaussianStat(view, feature, view + feature + 1), oob |-> FALSE]
  ELSE IF ub = "crash"
       THEN [status |-> "Crash", sum |-> [tag |-> "N"], oob |-> TRUE]
       ELSE [status |-> "ok", sum |-> BiGaussianStat(view, feature, 4), oob |-> TRUE]

\* Lookup of the code in ListSummary, then the kind's init.
Summary_new(code, dm, view, feature, ub) ==
  IF ~Registered(code)
  THEN [status |-> "UnknownTypeCode", sum |-> [tag |-> "N"], oob |-> FALSE]
  ELSE IF feature < 1 \/ feature > Len(dm)
  THEN [status |-> "InvalidFeatureIndex", sum |-> [tag |-> "N"], oob |-> FALSE]
  ELSE CASE code = "N" -> [status |-> "ok", sum |-> NothingInit(dm, view, feature), oob |-> FALSE]
         [] code = "C" -> [status |-> "ok", sum |-> CategoricalInit(dm, view, feature), oob |-> FALSE]
         [] code = "G" -> [status |-> "ok", sum |-> GaussianInit(dm, view, feature), oob |-> FALSE]
         [] OTHER -> BiGaussianInit(dm, view, feature, ub)

Summary_type(this) == this.tag

\* ------------------------------------------------------------- SummarySet
\* The default kind of a feature that has no code.
DefaultCodeSwapped(kind) == IF kind = "discrete" THEN "G" ELSE "C"

DefaultCode(kind) == IF kind = "discrete" THEN "C" ELSE "G"

\* Whether the type string gives feature f (1-based) a code.
HasCode(codes, f) == ~codes.null /\ f <= Len(codes.str)

CodeFor(dm, codes, f) == IF HasCode(codes, f) THEN codes.str[f] ELSE DefaultCode(dm[f])

\* The slots f..features, built in order; the first failure ends the loop.
RECURSIVE BuildSlots(_, _, _, _, _, _)
BuildSlots(dm, view, codes, f, built, ub) ==
  IF f > Len(dm)
  THEN [status |-> "ok", slots |-> built, oob |-> FALSE]
  ELSE LET r == Summary_new(CodeFor(dm, codes, f), dm, view, f, ub)
       IN  IF r.status # "ok"
           THEN [status |-> r.status, slots |-> built, oob |-> r.oob]
           ELSE LET rest == BuildSlots(dm, view, codes, f + 1, Append(built, r.sum), ub)
                IN  [rest EXCEPT !.oob = rest.oob \/ r.oob]

\* Allocates the set, builds one slot per feature of dm; on a failure the
\* slots built so far and the set are released (leaked = 0).
SummarySet_new(dm, view, codes, ub) ==
  LET b == BuildSlots(dm, view, codes, 1, <<>>, ub)
  IN  IF b.status = "ok"
      THEN [status |-> "ok", set |-> [features |-> Len(dm), feature |-> b.slots],
            oob |-> b.oob, leaked |-> 0]
      ELSE [status |-> b.status, set |-> [features |-> 0, feature |-> <<>>],
            oob |-> b.oob, leaked |-> 0]

\* --------------------------------------------------------- error scoring
\* The loss of the rows of view under this summary, a float.
Summary_error(this, dm, view, feature) ==
  IF this.tag = "N" THEN 0
  ELSE IF view = 1 THEN 2 + feature ELSE 8388605 + 2 * view

\* out[f] += Summary_error(feature[f], ...) for every slot; the set is only read.
SummarySet_errorOverwrite(this, dm, view, outp) ==
  [set |-> this,
   out |-> [f \in 1..this.features |-> Summary_error(this.feature[f], dm, view, f)]]

SummarySet_errorCaching(this, dm, view, outp) ==
  [set |-> [this EXCEPT !.feature = [f \in 1..this.features |-> [tag |-> "N"]]],
   out |-> [f \in 1..this.features |->
              FAdd(outp[f], Summary_error(this.feature[f], dm, view, f))]]

SummarySet_error(this, dm, view, outp) ==
  [set |-> this,
   out |-> [f \in 1..this.features |->
              FAdd(outp[f], Summary_error(this.feature[f], dm, view, f))]]

\* ------------------------------------------------------------- byte codec
\* A u32 as its four bytes, little-endian, and back.
U32Bytes(n) == <<n % 256, (n \div 256) % 256, (n \div 65536) % 256, (n \div 16777216) % 256>>

U32Of(b) == b[1] + 256 * b[2] + 65536 * b[3] + 16777216 * b[4]

RECURSIVE Concat(_)
Concat(seqs) == IF seqs = <<>> THEN <<>> ELSE Head(seqs) \o Concat(Tail(seqs))

\* size: the bytes of the record, code byte included.
Summary_size(this) ==
  CASE this.tag = "N" -> 1
    [] this.tag = "C" -> 1 + 4 + 8 * Len(this.counts)
    [] this.tag = "G" -> 1 + 4 + 8 + 8
    [] OTHER -> 1 + 4 + 8 * 5

\* to_bytes: the code byte, then the payload of the kind.
Summary_to_bytesNoCount(this) ==
  <<CodeByte(this.tag)>> \o
  (CASE this.tag = "N" -> <<>>
     [] this.tag = "C" -> U32Bytes(Len(this.counts)) \o Concat(this.counts)
     [] this.tag = "G" -> U32Bytes(0) \o this.mean \o this.var
     [] OTHER -> U32Bytes(this.count) \o this.mean[1] \o this.mean[2]
                 \o this.cov[1] \o this.cov[2] \o this.cov[3])

Summary_to_bytes(this) ==
  <<CodeByte(this.tag)>> \o
  (CASE this.tag = "N" -> <<>>
     [] this.tag = "C" -> U32Bytes(Len(this.counts)) \o Concat(this.counts)
     [] this.tag = "G" -> U32Bytes(this.count) \o this.mean \o this.var
     [] OTHER -> U32Bytes(this.count) \o this.mean[1] \o this.mean[2]
                 \o this.cov[1] \o this.cov[2] \o this.cov[3])

\* The byte at 1-based position i of the block at in. from_bytes is given the
\* block's address only, never its length: a position past the end is read
\* all the same and returns whatever lies there (g).
Rd(in, i, g) == IF i <= Len(in) THEN in[i] ELSE g

Bytes(in, pos, n, g) == [i \in 1..n |-> Rd(in, pos + i - 1, g)]

\* from_bytes of one record starting at pos: the code byte selects the kind,
\* whose payload is then read. ate is the number of bytes read.
Summary_from_bytes(in, pos, g) ==
  LET code == CodeOfByte(Rd(in, pos, g))
      count == U32Of(Bytes(in, pos + 1, 4, g))
      fail(st, n) == [status |-> st, sum |-> [tag |-> "N"], ate |-> 0,
                      oob |-> pos + n - 1 > Len(in)]
      done(s, n) == [status |-> "ok", sum |-> s, ate |-> n, oob |-> pos + n - 1 > Len(in)]
  IN  CASE code = "?" -> fail("CorruptData", 1)
        [] code = "N" -> done([tag |-> "N"], 1)
        [] code = "C" ->
             IF 8 * count > 4096
             THEN fail("Crash", 5 + 4096)
             ELSE done([tag |-> "C",
                        counts |-> [i \in 1..count |-> Bytes(in, pos + 5 + 8 * (i - 1), 8, g)]],
                       5 + 8 * count)
        [] code = "G" ->
             done([tag |-> "G", count |-> count,
                   mean |-> Bytes(in, pos + 5, 8, g), var |-> Bytes(in, pos + 13, 8, g)], 21)
        [] OTHER ->
             done([tag |-> "B", count |-> count,
                   mean |-> <<Bytes(in, pos + 5, 8, g), Bytes(in, pos + 13, 8, g)>>,
                   cov |-> <<Bytes(in, pos + 21, 8, g), Bytes(in, pos + 29, 8, g),
                             Bytes(in, pos + 37, 8, g)>>], 45)

RECURSIVE SumSizes(_)
SumSizes(slots) == IF slots = <<>> THEN 0 ELSE Summary_size(Head(slots)) + SumSizes(Tail(slots))

\* The feature count, then every member's record in slot order.
SummarySet_size(this) == 4 + SumSizes(this.feature)

SummarySet_to_bytes(this) ==
  U32Bytes(this.features) \o
  Concat([f \in 1..this.features |-> Summary_to_bytes(this.feature[f])])

\* The records k..n of a set, read one after the other from pos.
RECURSIVE ReadRecords(_, _, _, _, _)
ReadRecords(in, pos, left, acc, g) ==
  IF left = 0
  THEN [status |-> "ok", slots |-> acc, pos |-> pos, oob |-> FALSE]
  ELSE LET r == Summary_from_bytes(in, pos, g)
       IN  IF r.status # "ok"
           THEN [status |-> r.status, slots |-> acc, pos |-> pos, oob |-> r.oob]
           ELSE LET rest == ReadRecords(in, pos + r.ate, left - 1, Append(acc, r.sum), g)
                IN  [rest EXCEPT !.oob = rest.oob \/ r.oob]

\* Reads the feature count, then that many records of whatever kinds; on a
\* failure the slots read so far and the set are released (leaked = 0).
SummarySet_from_bytes(in, g) ==
  LET n == U32Of(Bytes(in, 1, 4, g))
      r == ReadRecords(in, 5, n, <<>>, g)
  IN  IF r.status = "ok"
      THEN [status |-> "ok", set |-> [features |-> n, feature |-> r.slots],
            ate |-> r.pos - 1, oob |-> r.oob \/ Len(in) < 4, leaked |-> 0]
      ELSE [status |-> r.status, set |-> [features |-> 0, feature |-> <<>>],
            ate |-> 0, oob |-> r.oob \/ Len(in) < 4, leaked |-> 0]

\* ------------------------------------------------------------------ merge
\* Summary = *(bytes(sums[tree]) + offset): what lies offset bytes into the
\* struct SummarySet at base. Offsets below FeatureOffset hit the features
\* header and its padding, not a slot: "wild" stands for what is read there.
Wild == [tag |-> "wild"]

SummaryAt(base, offset) ==
  IF offset >= FeatureOffset
     /\ (offset - FeatureOffset) % PtrSize = 0
     /\ (offset - FeatureOffset) \div PtrSize < base.features
  THEN base.feature[(offset - FeatureOffset) \div PtrSize + 1]
  ELSE Wild

\* merge_py of a kind: the caller-visible aggregate of same-kind summaries,
\* kept as the kind and the ordered components it is computed from. Nothing
\* merges to the same empty value whatever it is given.
TypeMergePy(tag, sums) ==
  IF tag = "N" THEN [kind |-> "N", of |-> <<>>] ELSE [kind |-> tag, of |-> sums]

NoOutput == [kind |-> "none", of |-> <<>>]

\* Dispatch on the first summary's kind with no look at the others.
Summary_merge_pyFirstTag(trees, sums, offset) ==
  LET S == [t \in 1..trees |-> SummaryAt(sums[t], offset)]
  IN  [status |-> "ok", out |-> TypeMergePy(S[1].tag, S)]

\* Gathers the summary of every tree at base + offset, checks that they are
\* all of one kind, and calls that kind's merge_py.
Summary_merge_py(trees, sums, offset) ==
  LET S == [t \in 1..trees |-> SummaryAt(sums[t], offset)]
  IN  IF \E t \in 1..trees : S[t].tag = "wild"
      THEN [status |-> "Undefined", out |-> NoOutput]
      ELSE IF \E t \in 1..trees : S[t].tag # S[1].tag
      THEN [status |-> "TagMismatch", out |-> NoOutput]
      ELSE [status |-> "ok", out |-> TypeMergePy(S[1].tag, S)]

\* Position (1-based) of exemplar e, tree t in the sums array: exemplars are
\* the outer index, trees the inner.
ManyIndexTreesOuter(e, t, exemplars, trees) == (t - 1) * exemplars + e

ManyIndex(e, t, exemplars, trees) == (e - 1) * trees + t

\* One merged output per exemplar, from the exemplars x trees array.
Summary_merge_many_py(exemplars, trees, sums, offset) ==
  LET S == [i \in 1..(exemplars * trees) |-> SummaryAt(sums[i], offset)]
  IN  IF \E i \in 1..(exemplars * trees) : S[i].tag = "wild"
      THEN [status |-> "Undefined", out |-> <<>>]
      ELSE IF \E i \in 1..(exemplars * trees) : S[i].tag # S[1].tag
      THEN [status |-> "TagMismatch", out |-> <<>>]
      ELSE [status |-> "ok",
            out |-> [e \in 1..exemplars |->
                       TypeMergePy(S[1].tag,
                                   [t \in 1..trees |-> S[ManyIndex(e, t, exemplars, trees)]])]]

\* The first slot result that is not ok, or "ok".
FirstFailure(rs) ==
  IF \A f \in 1..Len(rs) : rs[f].status = "ok" THEN "ok"
  ELSE rs[CHOOSE f \in 1..Len(rs) :
            rs[f].status # "ok" /\ \A h \in 1..(f - 1) : rs[h].status = "ok"].status

\* A tuple indexed by feature: slot f of every set, merged by the slot's kind.
SummarySet_merge_py(trees, sum_sets) ==
  LET rs == [f \in 1..sum_sets[1].features |->
               Summary_merge_py(trees, sum_sets, SlotOffset(f - 1))]
  IN  IF FirstFailure(rs) = "ok"
      THEN [status |-> "ok", out |-> [f \in 1..Len(rs) |-> rs[f].out]]
      ELSE [status |-> FirstFailure(rs), out |-> <<>>]

\* As above for an exemplars x trees array of sets: per feature, one output
\* per exemplar.
SummarySet_merge_many_py(exemplars, trees, sum_sets) ==
  LET rs == [f \in 1..sum_sets[1].features |->
               Summary_merge_many_py(exemplars, trees, sum_sets, SlotOffset(f - 1))]
  IN  IF FirstFailure(rs) = "ok"
      THEN [status |-> "ok", out |-> [f \in 1..Len(rs) |-> rs[f].out]]
      ELSE [status |-> FirstFailure(rs), out |-> <<>>]

\* ------------------------------------------------------------------ state
VARIABLES
  dm,     \* the data container the sets are built from
  codes,  \* the type-code string given to SummarySet_new
  sets,   \* the live SummarySets, in order of construction
  out,    \* the caller's float array given to SummarySet_error
  calls,  \* SummarySet_error calls since out was last zeroed
  acc,    \* the set and view of the running accumulation
  buf,    \* the caller's byte buffer
  op,     \* the operation that ran last
  args,   \* its arguments
  res,    \* what it returned
  oob     \* whether it read outside the memory it was given

vars == <<dm, codes, sets, out, calls, acc, buf, op, args, res, oob>>

NoArgs == [none |-> TRUE]

NoAcc == [set |-> 0, view |-> 0]

\* What memory holds past the end of a block.
GarbageBytes == {0, 1}

\* The row subsets the held-out rows and the leaves are taken from.
Views == {1, 2}

\* A type string SummarySet_new builds a set from without leaving dm.
Constructible(d, c) ==
  LET r == SummarySet_new(d, 1, c, "crash") IN r.status = "ok" /\ ~r.oob

InitWith(d, c, s, a) ==
  /\ dm = d
  /\ codes = c
  /\ sets = s
  /\ out = [f \in 1..Len(d) |-> 0]
  /\ calls = 0
  /\ acc = NoAcc
  /\ buf = <<>>
  /\ op = "init"
  /\ args = a
  /\ res = [status |-> "none"]
  /\ oob = FALSE

\* ---------------------------------------------------------------- actions
\* SummarySet_new for the next leaf (its row subset is the view).
New(ub) ==
  /\ op # "crash"
  /\ Len(sets) < MaxSets
  /\ LET r == SummarySet_new(dm, Len(sets) + 1, codes, ub)
     IN  /\ op' = IF r.status = "Crash" THEN "crash" ELSE "new"
         /\ sets' = IF r.status = "ok" THEN Append(sets, r.set) ELSE sets
         /\ res' = [status |-> r.status, leaked |-> r.leaked]
         /\ oob' = r.oob
  /\ args' = [view |-> Len(sets) + 1]
  /\ UNCHANGED <<dm, codes, out, calls, acc, buf>>

\* SummarySet_delete of the newest set (never the one being accumulated).
Delete ==
  /\ op # "crash"
  /\ Len(sets) > 0
  /\ ~(calls > 0 /\ acc.set = Len(sets))
  /\ sets' = SubSeq(sets, 1, Len(sets) - 1)
  /\ op' = "delete"
  /\ args' = NoArgs
  /\ res' = [status |-> "ok"]
  /\ oob' = FALSE
  /\ UNCHANGED <<dm, codes, out, calls, acc, buf>>

\* SummarySet_error(sets[i], dm, view, out); a running accumulation keeps to
\* one set and one view.
Error(i, view) ==
  /\ op # "crash"
  /\ i \in 1..Len(sets)
  /\ calls < MaxCalls
  /\ calls = 0 \/ acc = [set |-> i, view |-> view]
  /\ LET r == SummarySet_error(sets[i], dm, view, out)
     IN  /\ sets' = [sets EXCEPT ![i] = r.set]
         /\ out' = r.out
  /\ calls' = calls + 1
  /\ acc' = [set |-> i, view |-> view]
  /\ op' = "error"
  /\ args' = [set |-> i, view |-> view]
  /\ res' = [status |-> "ok"]
  /\ oob' = FALSE
  /\ UNCHANGED <<dm, codes, buf>>

\* The caller zeroes its array to start a new accumulation.
ZeroOut ==
  /\ op # "crash"
  /\ calls > 0
  /\ out' = [f \in 1..Len(dm) |-> 0]
  /\ calls' = 0
  /\ acc' = NoAcc
  /\ op' = "zero"
  /\ args' = NoArgs
  /\ res' = [status |-> "ok"]
  /\ oob' = FALSE
  /\ UNCHANGED <<dm, codes, sets, buf>>

\* The array of SummarySet pointers a merge is given: arr[i] names a live set.
SumSets(arr) == [i \in 1..Len(arr) |-> sets[arr[i]]]

\* Summary_merge_py on slot f (1-based) of the sets.
SummaryMergePy(trees, arr, f) ==
  /\ op # "crash"
  /\ res' = Summary_merge_py(trees, SumSets(arr), SlotOffset(f - 1))
  /\ op' = "summary_merge"
  /\ args' = [exemplars |-> 1, trees |-> trees, arr |-> arr, f |-> f]
  /\ oob' = FALSE
  /\ UNCHANGED <<dm, codes, sets, out, calls, acc, buf>>

SummaryMergeManyPy(exemplars, trees, arr, f) ==
  /\ op # "crash"
  /\ res' = Summary_merge_many_py(exemplars, trees, SumSets(arr), SlotOffset(f - 1))
  /\ op' = "summary_merge_many"
  /\ args' = [exemplars |-> exemplars, trees |-> trees, arr |-> arr, f |-> f]
  /\ oob' = FALSE
  /\ UNCHANGED <<dm, codes, sets, out, calls, acc, buf>>

SetMergePy(trees, arr) ==
  /\ op # "crash"
  /\ res' = SummarySet_merge_py(trees, SumSets(arr))
  /\ op' = "merge"
  /\ args' = [exemplars |-> 1, trees |-> trees, arr |-> arr, f |-> 0]
  /\ oob' = FALSE
  /\ UNCHANGED <<dm, codes, sets, out, calls, acc, buf>>

SetMergeManyPy(exemplars, trees, arr) ==
  /\ op # "crash"
  /\ res' = SummarySet_merge_many_py(exemplars, trees, SumSets(arr))
  /\ op' = "merge_many"
  /\ args' = [exemplars |-> exemplars, trees |-> trees, arr |-> arr, f |-> 0]
  /\ oob' = FALSE
  /\ UNCHANGED <<dm, codes, sets, out, calls, acc, buf>>

\* SummarySet_size(sets[i]).
SizeOp(i) ==
  /\ op # "crash"
  /\ i \in 1..Len(sets)
  /\ res' = [status |-> "ok", size |-> SummarySet_size(sets[i])]
  /\ op' = "size"
  /\ args' = [set |-> i]
  /\ oob' = FALSE
  /\ UNCHANGED <<dm, codes, sets, out, calls, acc, buf>>

\* SummarySet_to_bytes(sets[i], buf) into a buffer of SummarySet_size bytes.
ToBytesOp(i) ==
  /\ op # "crash"
  /\ i \in 1..Len(sets)
  /\ buf' = SummarySet_to_bytes(sets[i])
  /\ op' = "to_bytes"
  /\ args' = [kind |-> "set", x |-> sets[i], size |-> SummarySet_size(sets[i]), cut |-> FALSE]
  /\ res' = [status |-> "ok"]
  /\ oob' = FALSE
  /\ UNCHANGED <<dm, codes, sets, out, calls, acc>>

\* Summary_to_bytes(sets[i].feature[f], buf) into a buffer of Summary_size bytes.
SummaryToBytesOp(i, f) ==
  /\ op # "crash"
  /\ i \in 1..Len(sets)
  /\ f \in 1..sets[i].features
  /\ buf' = Summary_to_bytes(sets[i].feature[f])
  /\ op' = "to_bytes"
  /\ args' = [kind |-> "summary", x |-> sets[i].feature[f],
              size |-> Summary_size(sets[i].feature[f]), cut |-> FALSE]
  /\ res' = [status |-> "ok"]
  /\ oob' = FALSE
  /\ UNCHANGED <<dm, codes, sets, out, calls, acc>>

\* The saved block loses its tail (a short read, a cut file): n bytes are
\* left, the code byte or feature count among them.
Truncate(n) ==
  /\ op = "to_bytes"
  /\ n < Len(buf)
  /\ n >= (IF args.kind = "set" THEN 4 ELSE 1)
  /\ buf' = SubSeq(buf, 1, n)
  /\ op' = "truncate"
  /\ args' = [args EXCEPT !.cut = TRUE]
  /\ UNCHANGED <<dm, codes, sets, out, calls, acc, res, oob>>

\* SummarySet_from_bytes / Summary_from_bytes on buf. A read past the end of
\* buf either stops the process or returns the bytes g lying there.
FromBytesOp(g, ub) ==
  /\ op \in {"to_bytes", "truncate"}
  /\ LET r == IF args.kind = "set"
              THEN SummarySet_from_bytes(buf, g)
              ELSE LET q == Summary_from_bytes(buf, 1, g)
                   IN  [status |-> q.status, set |-> q.sum, ate |-> q.ate,
                        oob |-> q.oob, leaked |-> 0]
     IN  IF r.status = "Crash" \/ (r.oob /\ ub = "crash")
         THEN /\ op' = "crash"
              /\ res' = [status |-> "Crash"]
              /\ oob' = TRUE
         ELSE /\ op' = "from_bytes"
              /\ res' = [status |-> r.status, x |-> r.set, ate |-> r.ate, leaked |-> r.leaked]
              /\ oob' = r.oob
  /\ UNCHANGED <<dm, codes, sets, out, calls, acc, buf, args>>

\* --------------------------------------------------------- specifications
\* The life of the sets of one forest: construction, error accumulation, the
\* merges over all live sets, size and serialisation, deletion.
ShortCodes(d) == {c \in CodeStrings(1) : Constructible(d, c)}

FullMatrices == {m \in DataMatrices : Len(m) = MaxFeatures}

Init == \E d \in FullMatrices : \E c \in ShortCodes(d) : InitWith(d, c, <<>>, NoArgs)

AllSets(exemplars) == [i \in 1..(exemplars * Len(sets)) |-> ((i - 1) % Len(sets)) + 1]

Next ==
  \/ \E ub \in UBOutcomes : New(ub)
  \/ Delete
  \/ \E i \in 1..MaxSets, view \in Views : Error(i, view)
  \/ ZeroOut
  \/ Len(sets) > 0 /\ SetMergePy(Len(sets), AllSets(1))
  \/ \E e \in 1..MaxExemplars : Len(sets) > 0 /\ SetMergeManyPy(e, Len(sets), AllSets(e))
  \/ \E i \in 1..MaxSets : SizeOp(i)
  \/ \E i \in 1..MaxSets : ToBytesOp(i)

Spec == Init /\ [][Next]_vars

\* Construction from every type string, the bad ones included.
InitNew == \E d \in DataMatrices : \E c \in CodeStrings(Len(d)) : InitWith(d, c, <<>>, NoArgs)

NextNew ==
  \/ \E ub \in UBOutcomes : New(ub)
  \/ Delete

SpecNew == InitNew /\ [][NextNew]_vars

\* The merges as functions of their arguments: two sets of one data container
\* (the second may differ in kind in its first slot), and every exemplars x
\* trees array of pointers to them.
Arrays(n) == [1..n -> 1..2]

InitMerge ==
  \E d \in FullMatrices : \E cb \in ShortCodes(d) :
    \E e \in 1..MaxExemplars, t \in 1..MaxTrees : \E arr \in Arrays(e * t) :
      InitWith(d, cb,
               <<SummarySet_new(d, 1, NullCodes, "crash").set,
                 SummarySet_new(d, 2, cb, "crash").set>>,
               [exemplars |-> e, trees |-> t, arr |-> arr, f |-> 0])

NextMerge ==
  \/ \E f \in 1..Len(dm) :
       args.exemplars = 1 /\ SummaryMergePy(args.trees, args.arr, f)
  \/ \E f \in 1..Len(dm) :
       SummaryMergeManyPy(args.exemplars, args.trees, args.arr, f)
  \/ args.exemplars = 1 /\ SetMergePy(args.trees, args.arr)
  \/ SetMergeManyPy(args.exemplars, args.trees, args.arr)

SpecMerge == InitMerge /\ [][NextMerge]_vars

\* The byte codec, on one set of every constructible type string.
InitBytes ==
  \E d \in DataMatrices : \E c \in {c \in CodeStrings(Len(d)) : Constructible(d, c)} :
    \E v \in Views : InitWith(d, c, <<SummarySet_new(d, v, c, "crash").set>>, NoArgs)

NextBytes ==
  \/ ToBytesOp(1)
  \/ \E f \in 1..Len(dm) : SummaryToBytesOp(1, f)
  \/ \E n \in 1..Len(buf) : Truncate(n)
  \/ \E g \in GarbageBytes, ub \in UBOutcomes : FromBytesOp(g, ub)

SpecBytes == InitBytes /\ [][NextBytes]_vars

AccError(f) == Summary_error(sets[acc.set].feature[f], dm, acc.view, f)

\* e added n times to zero, each addition rounded to float.
RECURSIVE FSum(_, _)
FSum(n, e) == IF n = 0 THEN 0 ELSE FAdd(FSum(n - 1, e), e)

\* C2 as amended: after n calls with the same set, data and view into a zeroed
\* array, out[f] is the single-call result added n times in float arithmetic;
\* that is exactly double after two calls, and n times the single-call result
\* whenever every multiple up to n is itself a float.
C2_Accumulates ==
  /\ calls = 0 => \A f \in 1..Len(dm) : out[f] = 0
  /\ calls > 0 =>
       \A f \in 1..Len(dm) :
         /\ out[f] = FSum(calls, AccError(f))
         /\ calls = 2 => out[f] = 2 * AccError(f)
         /\ (\A k \in 1..calls : FRound(k * AccError(f)) = k * AccError(f))
              => out[f] = calls * AccError(f)

C2_Witness ==
  /\ op = "error"
  /\ calls >= 2
  /\ \E f \in 1..Len(dm) : AccError(f) > 0 /\ out[f] = 2 * AccError(f)

\* C2 as stated: after n calls every out[f] is n times the single-call
\* result (the product taken as the nearest float).
C2_NTimesSingleCall ==
  calls > 0 => \A f \in 1..Len(dm) : out[f] = FRound(calls * AccError(f))

\* ---- C3 (SpecNew) ------------------------------------------------------
\* The type string asks for a BiGaussian on the last feature of dm, and every
\* slot before it can be built.
BiGaussianLast ==
  /\ CodeFor(dm, codes, Len(dm)) = "B"
  /\ \A f \in 1..(Len(dm) - 1) : Registered(CodeFor(dm, codes, f))

\* C3: SummarySet_new with a BiGaussian on the last feature fails with
\* InvalidFeatureIndex and reads nothing outside the data container.
C3_LastBiGaussianRejected ==
  (op \in {"new", "crash"} /\ BiGaussianLast) =>
    (res.status = "InvalidFeatureIndex" /\ ~oob)

\* ---- C6 (SpecNew) ------------------------------------------------------
\* C6: every set SummarySet_new returns has one slot per feature of dm; a
\* feature with no code (null string, or string too short) gets a Categorical
\* when discrete and a Gaussian when continuous, a feature with a code gets
\* the kind of that code.
C6_SlotKinds ==
  \A i \in 1..Len(sets) :
    /\ sets[i].features = Len(dm)
    /\ Len(sets[i].feature) = Len(dm)
    /\ \A f \in 1..Len(dm) :
         sets[i].feature[f].tag =
           IF codes.null \/ Len(codes.str) < f
           THEN (IF dm[f] = "discrete" THEN "C" ELSE "G")
           ELSE codes.str[f]

C6_Witness ==
  /\ op = "new"
  /\ res.status = "ok"
  /\ Len(dm) >= 2
  /\ ~codes.null
  /\ Len(codes.str) = 1
  /\ Len(sets) >= 1
  /\ sets[1].feature[1].tag = "N"
  /\ sets[1].feature[2].tag = "C"

\* ---- C9 (Spec) ---------------------------------------------------------
ReadOnlyOps == {"error", "merge", "merge_many", "size", "to_bytes"}

\* C9: a step of SummarySet_error, SummarySet_merge_py,
\* SummarySet_merge_many_py, SummarySet_size or SummarySet_to_bytes leaves
\* every live set as it was (feature count, kinds, payloads); a step of
\* SummarySet_error changes nothing but the caller's array and its count.
C9_ReadOnly ==
  [][/\ op' \in ReadOnlyOps => sets' = sets
     /\ op' = "error" => (dm' = dm /\ codes' = codes /\ buf' = buf)]_vars

C9_Witness ==
  /\ op = "to_bytes"
  /\ calls > 0
  /\ Len(sets) = 2
  /\ \E f \in 1..Len(dm) : out[f] > 0

\* ---- C4 (SpecMerge) ----------------------------------------------------
\* The kinds of slot f of the first n sets of the array.
SlotTags(n, f) == {sets[args.arr[i]].feature[f].tag : i \in 1..n}

Mixed(n, f) == Cardinality(SlotTags(n, f)) > 1

\* C4: a merge fails with TagMismatch exactly when the summaries it is given
\* are not all of one kind (for the set merges: in some slot); otherwise it
\* succeeds with the aggregate of that one kind.
C4_TagMismatch ==
  /\ op = "summary_merge" =>
       /\ res.status = "TagMismatch" <=> Mixed(args.trees, args.f)
       /\ res.status = "ok" <=> ~Mixed(args.trees, args.f)
       /\ res.status = "ok" => {res.out.kind} = SlotTags(args.trees, args.f)
  /\ op = "summary_merge_many" =>
       /\ res.status = "TagMismatch" <=> Mixed(args.exemplars * args.trees, args.f)
       /\ res.status = "ok" <=> ~Mixed(args.exemplars * args.trees, args.f)
  /\ op = "merge" =>
       (res.status = "TagMismatch" <=> \E f \in 1..Len(dm) : Mixed(args.trees, f))
  /\ op = "merge_many" =>
       (res.status = "TagMismatch" <=>
          \E f \in 1..Len(dm) : Mixed(args.exemplars * args.trees, f))

C4_Witness ==
  /\ op = "summary_merge"
  /\ args.trees >= 2
  /\ SlotTags(args.trees, args.f) = {"G", "C"}
  /\ res.status = "TagMismatch"

\* ---- C8 (SpecMerge) ----------------------------------------------------
\* The trees sets of exemplar e: positions (e-1)*trees + 1 .. e*trees.
Slice(e) == [t \in 1..args.trees |-> sets[args.arr[(e - 1) * args.trees + t]]]

C10_FanOut ==
  op = "merge" =>
    /\ res.status \in {"ok", "TagMismatch"}
    /\ \A t \in 1..args.trees : \A f \in 1..Len(dm) :
         SummaryAt(sets[args.arr[t]], SlotOffset(f - 1)) = sets[args.arr[t]].feature[f]
    /\ res.status = "ok" =>
         /\ Len(res.out) = sets[args.arr[1]].features
         /\ \A f \in 1..Len(dm) :
              res.out[f] =
                TypeMergePy(sets[args.arr[1]].feature[f].tag,
                            [t \in 1..args.trees |-> sets[args.arr[t]].feature[f]])

C10_Witness ==
  /\ op = "merge"
  /\ res.status = "ok"
  /\ args.trees >= 2
  /\ Len(res.out) >= 2
  /\ args.arr[1] # args.arr[2]
  /\ res.out[1].kind # res.out[2].kind

\* C10 as stated: with offset = f * sizeof(Summary) (f counted from 0), base +
\* offset is the f-th Summary of every set.
C10_OffsetIsSlotTimesSize ==
  op = "merge" =>
    \A t \in 1..args.trees : \A f \in 1..Len(dm) :
      SummaryAt(sets[args.arr[t]], (f - 1) * PtrSize) = sets[args.arr[t]].feature[f]

\* ---- C5 (SpecBytes) ----------------------------------------------------
\* C5: from_bytes on a block cut short of its payload fails with CorruptData,
\* reads no byte past the end of the block, and leaves nothing allocated.
C5_TruncatedFails ==
  (op \in {"from_bytes", "crash"} /\ args.cut) =>
    (res.status = "CorruptData" /\ ~oob /\ res.leaked = 0)

====
